---- MODULE Spec2Model ----
(***************************************************************************)
(* Model of the cart store of src/hooks/useCart.tsx (CartProvider).        *)
(*                                                                         *)
(* The React state `cart`, the localStorage entry '@RocketShoes:cart',     *)
(* the toasts of the last step and the invocations of the async handlers   *)
(* that are suspended at an `await` are the state.  Every handler is cut   *)
(* at its awaits: the code between two awaits runs to completion on the    *)
(* single JavaScript thread and is one action.  A handler closes over the  *)
(* `cart` of the render it was created in; the provider re-renders on      *)
(* every setCart before the next call is dispatched, so the closed-over    *)
(* value is the state at the call.                                         *)
(***************************************************************************)
EXTENDS Integers, Sequences, FiniteSets, Bags

\* ------------------------------------------------------------------ bounds
MaxStock == 2
MaxInFlight == 2

ProductIds == {1, 2}
StockLevels == 0..MaxStock
\* amount arguments of updateProductAmount: 0, below the guard of line 134;
\* 1, the least amount past it; MaxStock, within the highest stock level and
\* above every other
Amounts == {0, 1, MaxStock}

\* ------------------------------------------------- messages (toast.error)
StockMsg == "Quantidade solicitada fora de estoque"
AddMsg == "Erro na adição do produto"
RemoveMsg == "Erro na remoção do produto"
UpdateMsg == "Erro na alteração de quantidade do produto"

VARIABLES
  cart,      \* useState<Product[]>: the current state of the hook
  storage,   \* localStorage entry LOCAL_STORAGE_CART_KEY
  toasts,    \* messages the last step passed to toast.error, in call order
  stock,     \* the server's stock/:id resource, amount per product
  calls,     \* the bag of invocations suspended at an await
  uncaught,  \* an error left a handler or a state updater uncaught
  ev         \* the last step: the call or continuation and its inputs

vars == <<cart, storage, toasts, stock, calls, uncaught, ev>>

\* ------------------------------------------------------------ data model
\* Product: id, amount and the catalog fields, which pass through unmodified
Catalog(productId) == <<"product", productId>>

Product(productId, amount) ==
  [id |-> productId, title |-> Catalog(productId), amount |-> amount]

\* cart.find(product => product.id === productId), as a truth value
InCart(c, productId) == \E i \in 1..Len(c) : c[i].id = productId

\* the amount of the first product with this id (find returns the first)
AmountOf(c, productId) ==
  LET i == CHOOSE j \in 1..Len(c) :
             /\ c[j].id = productId
             /\ \A k \in 1..(j - 1) : c[k].id # productId
  IN c[i].amount

\* JSON.stringify of a Product[]: one <<id, title, amount>> entry per product
Stringify(c) == [i \in 1..Len(c) |-> <<c[i].id, c[i].title, c[i].amount>>]

\* JSON.parse of such a string
Parse(s) == [i \in 1..Len(s) |-> [id |-> s[i][1], title |-> s[i][2], amount |-> s[i][3]]]

\* localStorage.getItem returns null for a key that was never set
Absent == [present |-> FALSE, value |-> <<>>]
Stored(s) == [present |-> TRUE, value |-> s]

\* a stored text JSON.parse cannot read: a write cut short after the first
\* field of the first product
Unparseable == <<<<1>>>>

\* the texts JSON.parse accepts
IsJSON(s) == \A i \in 1..Len(s) : Len(s[i]) = 3

\* the initializer of useState: the stored cart, or [] when nothing is stored
InitialCart(st) == IF st.present THEN Parse(st.value) ELSE <<>>

\* JSON.parse throws a SyntaxError in the initializer, which has no try
InitializerThrows(st) == st.present /\ ~IsJSON(st.value)

\* checkStockAvailability accepting one unit more than the stock holds
checkStockAvailabilityOffByOne(stockQuantity, requiredQuantity) ==
  stockQuantity + 1 >= requiredQuantity

\* checkStockAvailability that only asks for the product to be in stock
checkStockAvailabilityAnyStock(stockQuantity, requiredQuantity) ==
  stockQuantity >= 1

\* checkStockAvailability, the comparison on the response of stock/:id
checkStockAvailability(stockQuantity, requiredQuantity) ==
  stockQuantity >= requiredQuantity

\* fetchProductData: the product without its amount
fetchProductData(productId) == [id |-> productId, title |-> Catalog(productId)]

\* saveToLocalStorage: the value setItem stores
saveToLocalStorage(cartToSave) == Stored(Stringify(cartToSave))

\* the new product put in front: [{ ...productData, amount: 1 }, ...cart]
PrependedCart(c, productData) ==
  <<[id |-> productData.id, title |-> productData.title, amount |-> 1]>> \o c

\* [...cart, { ...productData, amount: 1 }]
AppendedCart(c, productData) ==
  Append(c, [id |-> productData.id, title |-> productData.title, amount |-> 1])

\* the increment without the test of the id
IncrementedEveryProduct(c, productId) ==
  [i \in 1..Len(c) |-> [c[i] EXCEPT !.amount = c[i].amount + 1]]

\* cart.map(product => product.id === productId
\*                       ? { ...product, amount: product.amount + 1 } : product)
IncrementedCart(c, productId) ==
  [i \in 1..Len(c) |->
     IF c[i].id = productId
     THEN [c[i] EXCEPT !.amount = c[i].amount + 1]
     ELSE c[i]]

\* the filter dropping everything from the removed product on
FilteredCartTruncated(c, productId) ==
  LET i == CHOOSE j \in 1..Len(c) : c[j].id = productId
  IN SubSeq(c, 1, i - 1)

\* cart.filter(product => product.id !== productId)
FilteredCart(c, productId) == SelectSeq(c, LAMBDA product : product.id # productId)

\* the guard of line 134 letting 0 through
InvalidAmountNegative(amount) == amount < 0

\* line 134: if (amount < 1) return
InvalidAmount(amount) == amount < 1

\* the replacement adding the requested amount to the current one
ReplacedCartAdding(current, productId, amount) ==
  [i \in 1..Len(current) |->
     IF current[i].id = productId
     THEN [current[i] EXCEPT !.amount = current[i].amount + amount]
     ELSE current[i]]

\* the replacement that keeps only the product it sets
ReplacedCartTargetOnly(c, productId, amount) ==
  [i \in 1..Len(SelectSeq(c, LAMBDA p : p.id = productId)) |->
     [SelectSeq(c, LAMBDA p : p.id = productId)[i] EXCEPT !.amount = amount]]

\* current.map(product => product.id === productId
\*                          ? { ...product, amount } : product)
ReplacedCart(current, productId, amount) ==
  [i \in 1..Len(current) |->
     IF current[i].id = productId
     THEN [current[i] EXCEPT !.amount = amount]
     ELSE current[i]]

\* --------------------------------------------------------- the invocations
\* a suspended invocation is what its continuation still uses: the handler,
\* the await it is at, its arguments and, for addProduct, the cart it closed
\* over.  Suspend: the invocation c reaches an await; Settle: it leaves it
Suspend(c) == calls (+) SetToBag({c})
Settle(c) == calls (-) SetToBag({c})

\* after an uncaught error in a render the provider is unmounted: nothing
\* is modelled past that point
CanCall == ~uncaught

\* the calls of toast.error made by one step
NoToast == <<>>
Raise(message) == <<message>>

\* at most MaxInFlight invocations are suspended at a time
CanSuspend == BagCardinality(calls) < MaxInFlight

\* the last step: a call with its arguments, or the continuation of an await
\* with the outcome of the request (reply) and of the setItem it reached (save)
Call(op, productId, amount, save) ==
  [op |-> op, productId |-> productId, amount |-> amount,
   reply |-> "none", save |-> save]

Resume(op, reply, save) ==
  [op |-> op, productId |-> 0, amount |-> 0, reply |-> reply, save |-> save]

\* carts the store can have written: unique ids, 1 <= amount <= stock
UniqueIds(c) == \A i, j \in 1..Len(c) : c[i].id = c[j].id => i = j

StoredCarts(st) ==
  LET n == Cardinality(ProductIds)
      Shapes == UNION {[1..k -> ProductIds \X (1..MaxStock)] : k \in 0..n}
  IN {[i \in 1..Len(s) |-> Product(s[i][1], s[i][2])] :
        s \in {t \in Shapes :
                 /\ \A i, j \in 1..Len(t) : t[i][1] = t[j][1] => i = j
                 /\ \A i \in 1..Len(t) : t[i][2] <= st[t[i][1]]}}

\* the stock the server holds: product 1 at every level, product 2, the other
\* product of the cart, with a single unit
InitialStock == {f \in [ProductIds -> StockLevels] : f[2] = 1}

Init ==
  /\ stock \in InitialStock
  /\ storage \in {Absent, Stored(Unparseable)}
                  \cup {saveToLocalStorage(c) : c \in StoredCarts(stock)}
  /\ IF InitializerThrows(storage)
     THEN \* the provider does not render: no cart is published
          cart = <<>> /\ uncaught = TRUE
     ELSE cart = InitialCart(storage) /\ uncaught = FALSE
  /\ toasts = NoToast
  /\ calls = EmptyBag
  /\ ev = Call("init", 0, 0, "none")

\* ------------------------------------------------------------- addProduct
\* lines 64-71 and 82-88: up to the await of checkStockAvailability
addProduct(productId) ==
  /\ CanCall /\ CanSuspend
  /\ LET requiredQuantity == IF InCart(cart, productId)
                             THEN AmountOf(cart, productId) + 1
                             ELSE 1
     IN calls' = Suspend(
                    [op |-> "addProduct", pc |-> "stock", productId |-> productId,
                     amount |-> 0, requiredQuantity |-> requiredQuantity,
                     cart |-> cart])
  /\ ev' = Call("addProduct", productId, 0, "none")
  /\ toasts' = NoToast
  /\ UNCHANGED <<cart, storage, stock, uncaught>>

\* the two statements in the other order: setCart(updatedCart) has run when
\* setItem throws
AddCommitSetFirst(c, step, updatedCart) ==
  \/ /\ storage' = saveToLocalStorage(updatedCart)
     /\ cart' = updatedCart
     /\ calls' = Settle(c)
     /\ ev' = Resume(step, "resolved", "ok")
     /\ toasts' = NoToast
     /\ UNCHANGED <<stock, uncaught>>
  \/ /\ cart' = updatedCart
     /\ toasts' = Raise(AddMsg)
     /\ calls' = Settle(c)
     /\ ev' = Resume(step, "resolved", "throws")
     /\ UNCHANGED <<storage, stock, uncaught>>

\* lines 107-108: saveToLocalStorage(updatedCart); setCart(updatedCart)
AddCommit(c, step, updatedCart) ==
  \/ /\ storage' = saveToLocalStorage(updatedCart)
     /\ cart' = updatedCart
     /\ calls' = Settle(c)
     /\ ev' = Resume(step, "resolved", "ok")
     /\ toasts' = NoToast
     /\ UNCHANGED <<stock, uncaught>>
  \/ \* setItem throws (quota, storage disabled): caught at line 109
     /\ toasts' = Raise(AddMsg)
     /\ calls' = Settle(c)
     /\ ev' = Resume(step, "resolved", "throws")
     /\ UNCHANGED <<cart, storage, stock, uncaught>>

\* addProductStock with the increment computed on the state current at the
\* write instead of the cart the handler closed over
addProductStockOnCurrent(c) ==
  /\ ~uncaught
  /\ c.op = "addProduct" /\ c.pc = "stock"
  /\ BagIn(c, calls)
  /\ \/ /\ toasts' = Raise(AddMsg)
        /\ calls' = Settle(c)
        /\ ev' = Resume("addProduct.stock", "rejected", "none")
        /\ UNCHANGED <<cart, storage, stock, uncaught>>
     \/ /\ ~checkStockAvailability(stock[c.productId], c.requiredQuantity)
        /\ toasts' = Raise(StockMsg)
        /\ calls' = Settle(c)
        /\ ev' = Resume("addProduct.stock", "resolved", "none")
        /\ UNCHANGED <<cart, storage, stock, uncaught>>
     \/ /\ checkStockAvailability(stock[c.productId], c.requiredQuantity)
        /\ ~InCart(c.cart, c.productId)
        /\ calls' = Settle(c) (+) SetToBag({[c EXCEPT !.pc = "fetch"]})
        /\ ev' = Resume("addProduct.stock", "resolved", "none")
        /\ toasts' = NoToast
        /\ UNCHANGED <<cart, storage, stock, uncaught>>
     \/ /\ checkStockAvailability(stock[c.productId], c.requiredQuantity)
        /\ InCart(c.cart, c.productId)
        /\ AddCommit(c, "addProduct.stock", IncrementedCart(cart, c.productId))

\* lines 71-77 or 85-108: the continuation of the await of the stock query
addProductStock(c) ==
  /\ ~uncaught
  /\ c.op = "addProduct" /\ c.pc = "stock"
  /\ BagIn(c, calls)
  /\ \/ \* api.get rejects
        /\ toasts' = Raise(AddMsg)
        /\ calls' = Settle(c)
        /\ ev' = Resume("addProduct.stock", "rejected", "none")
        /\ UNCHANGED <<cart, storage, stock, uncaught>>
     \/ /\ ~checkStockAvailability(stock[c.productId], c.requiredQuantity)
        /\ toasts' = Raise(StockMsg)
        /\ calls' = Settle(c)
        /\ ev' = Resume("addProduct.stock", "resolved", "none")
        /\ UNCHANGED <<cart, storage, stock, uncaught>>
     \/ /\ checkStockAvailability(stock[c.productId], c.requiredQuantity)
        /\ ~InCart(c.cart, c.productId)
        /\ calls' = Settle(c) (+) SetToBag({[c EXCEPT !.pc = "fetch"]})
        /\ ev' = Resume("addProduct.stock", "resolved", "none")
        /\ toasts' = NoToast
        /\ UNCHANGED <<cart, storage, stock, uncaught>>
     \/ /\ checkStockAvailability(stock[c.productId], c.requiredQuantity)
        /\ InCart(c.cart, c.productId)
        /\ AddCommit(c, "addProduct.stock", IncrementedCart(c.cart, c.productId))

\* addProductFetch with the new product appended to the state current at the
\* write instead of the cart the handler closed over
addProductFetchOnCurrent(c) ==
  /\ ~uncaught
  /\ c.op = "addProduct" /\ c.pc = "fetch"
  /\ BagIn(c, calls)
  /\ \/ /\ toasts' = Raise(AddMsg)
        /\ calls' = Settle(c)
        /\ ev' = Resume("addProduct.fetch", "rejected", "none")
        /\ UNCHANGED <<cart, storage, stock, uncaught>>
     \/ AddCommit(c, "addProduct.fetch",
                  AppendedCart(cart, fetchProductData(c.productId)))

\* addProductFetch with the await of line 79 outside the try: a rejection of
\* the catalog is not caught and no toast is raised
addProductFetchUnhandled(c) ==
  /\ ~uncaught
  /\ c.op = "addProduct" /\ c.pc = "fetch"
  /\ BagIn(c, calls)
  /\ \/ /\ uncaught' = TRUE
        /\ toasts' = NoToast
        /\ calls' = Settle(c)
        /\ ev' = Resume("addProduct.fetch", "rejected", "none")
        /\ UNCHANGED <<cart, storage, stock>>
     \/ AddCommit(c, "addProduct.fetch",
                  AppendedCart(c.cart, fetchProductData(c.productId)))

\* lines 79-81 and 107-108: the continuation of the await of fetchProductData
addProductFetch(c) ==
  /\ ~uncaught
  /\ c.op = "addProduct" /\ c.pc = "fetch"
  /\ BagIn(c, calls)
  /\ \/ \* api.get rejects
        /\ toasts' = Raise(AddMsg)
        /\ calls' = Settle(c)
        /\ ev' = Resume("addProduct.fetch", "rejected", "none")
        /\ UNCHANGED <<cart, storage, stock, uncaught>>
     \/ AddCommit(c, "addProduct.fetch",
                  AppendedCart(c.cart, fetchProductData(c.productId)))

\* removeProduct with the two statements in the other order: setCart has run
\* when setItem throws
removeProductSetFirst(productId) ==
  /\ CanCall
  /\ \/ /\ ~InCart(cart, productId)
        /\ toasts' = Raise(RemoveMsg)
        /\ ev' = Call("removeProduct", productId, 0, "none")
        /\ UNCHANGED <<cart, storage, stock, calls, uncaught>>
     \/ /\ InCart(cart, productId)
        /\ storage' = saveToLocalStorage(FilteredCart(cart, productId))
        /\ cart' = FilteredCart(cart, productId)
        /\ ev' = Call("removeProduct", productId, 0, "ok")
        /\ toasts' = NoToast
        /\ UNCHANGED <<stock, calls, uncaught>>
     \/ /\ InCart(cart, productId)
        /\ cart' = FilteredCart(cart, productId)
        /\ toasts' = Raise(RemoveMsg)
        /\ ev' = Call("removeProduct", productId, 0, "throws")
        /\ UNCHANGED <<storage, stock, calls, uncaught>>

\* ---------------------------------------------------------- removeProduct
\* lines 114-127, synchronous
removeProduct(productId) ==
  /\ CanCall
  /\ \/ \* line 118: throw new Error(), caught at line 124
        /\ ~InCart(cart, productId)
        /\ toasts' = Raise(RemoveMsg)
        /\ ev' = Call("removeProduct", productId, 0, "none")
        /\ UNCHANGED <<cart, storage, stock, calls, uncaught>>
     \/ /\ InCart(cart, productId)
        /\ storage' = saveToLocalStorage(FilteredCart(cart, productId))
        /\ cart' = FilteredCart(cart, productId)
        /\ ev' = Call("removeProduct", productId, 0, "ok")
        /\ toasts' = NoToast
        /\ UNCHANGED <<stock, calls, uncaught>>
     \/ \* setItem throws: caught at line 124
        /\ InCart(cart, productId)
        /\ toasts' = Raise(RemoveMsg)
        /\ ev' = Call("removeProduct", productId, 0, "throws")
        /\ UNCHANGED <<cart, storage, stock, calls, uncaught>>

\* ---------------------------------------------------- updateProductAmount
\* updateProductAmount with the search of line 136 before the guard of line 134
updateProductAmountFindFirst(productId, amount) ==
  /\ CanCall
  /\ \/ \* line 134: if (amount < 1) return
        /\ InvalidAmount(amount)
        /\ InCart(cart, productId)
        /\ ev' = Call("updateProductAmount", productId, amount, "none")
        /\ toasts' = NoToast
        /\ UNCHANGED <<cart, storage, stock, calls, uncaught>>
     \/ \* line 138: throw new Error(), caught at line 168
        /\ ~InCart(cart, productId)
        /\ toasts' = Raise(UpdateMsg)
        /\ ev' = Call("updateProductAmount", productId, amount, "none")
        /\ UNCHANGED <<cart, storage, stock, calls, uncaught>>
     \/ /\ ~InvalidAmount(amount)
        /\ InCart(cart, productId)
        /\ CanSuspend
        /\ calls' = Suspend(
                       [op |-> "updateProductAmount", pc |-> "stock",
                        productId |-> productId, amount |-> amount,
                        requiredQuantity |-> amount, cart |-> <<>>])
        /\ ev' = Call("updateProductAmount", productId, amount, "none")
        /\ toasts' = NoToast
        /\ UNCHANGED <<cart, storage, stock, uncaught>>

\* updateProductAmount with the not-found case returning silently, like the
\* guard of line 134, instead of throwing
updateProductAmountNotFoundSilent(productId, amount) ==
  /\ CanCall
  /\ \/ /\ InvalidAmount(amount) \/ ~InCart(cart, productId)
        /\ ev' = Call("updateProductAmount", productId, amount, "none")
        /\ toasts' = NoToast
        /\ UNCHANGED <<cart, storage, stock, calls, uncaught>>
     \/ /\ ~InvalidAmount(amount)
        /\ InCart(cart, productId)
        /\ CanSuspend
        /\ calls' = Suspend(
                       [op |-> "updateProductAmount", pc |-> "stock",
                        productId |-> productId, amount |-> amount,
                        requiredQuantity |-> amount, cart |-> <<>>])
        /\ ev' = Call("updateProductAmount", productId, amount, "none")
        /\ toasts' = NoToast
        /\ UNCHANGED <<cart, storage, stock, uncaught>>

\* lines 129-143: up to the await of checkStockAvailability
updateProductAmount(productId, amount) ==
  /\ CanCall
  /\ \/ \* line 134: if (amount < 1) return
        /\ InvalidAmount(amount)
        /\ ev' = Call("updateProductAmount", productId, amount, "none")
        /\ toasts' = NoToast
        /\ UNCHANGED <<cart, storage, stock, calls, uncaught>>
     \/ \* line 138: throw new Error(), caught at line 168
        /\ ~InvalidAmount(amount)
        /\ ~InCart(cart, productId)
        /\ toasts' = Raise(UpdateMsg)
        /\ ev' = Call("updateProductAmount", productId, amount, "none")
        /\ UNCHANGED <<cart, storage, stock, calls, uncaught>>
     \/ /\ ~InvalidAmount(amount)
        /\ InCart(cart, productId)
        /\ CanSuspend
        /\ calls' = Suspend(
                       [op |-> "updateProductAmount", pc |-> "stock",
                        productId |-> productId, amount |-> amount,
                        requiredQuantity |-> amount, cart |-> <<>>])
        /\ ev' = Call("updateProductAmount", productId, amount, "none")
        /\ toasts' = NoToast
        /\ UNCHANGED <<cart, storage, stock, uncaught>>

\* updateProductAmountStock with a rejected stock query taken for a product
\* out of stock
updateProductAmountStockRejectedAsStock(c) ==
  /\ ~uncaught
  /\ c.op = "updateProductAmount" /\ c.pc = "stock"
  /\ BagIn(c, calls)
  /\ \/ /\ toasts' = Raise(StockMsg)
        /\ calls' = Settle(c)
        /\ ev' = Resume("updateProductAmount.stock", "rejected", "none")
        /\ UNCHANGED <<cart, storage, stock, uncaught>>
     \/ /\ ~checkStockAvailability(stock[c.productId], c.requiredQuantity)
        /\ toasts' = Raise(StockMsg)
        /\ calls' = Settle(c)
        /\ ev' = Resume("updateProductAmount.stock", "resolved", "none")
        /\ UNCHANGED <<cart, storage, stock, uncaught>>
     \/ /\ checkStockAvailability(stock[c.productId], c.requiredQuantity)
        /\ storage' = saveToLocalStorage(ReplacedCart(cart, c.productId, c.amount))
        /\ cart' = ReplacedCart(cart, c.productId, c.amount)
        /\ calls' = Settle(c)
        /\ ev' = Resume("updateProductAmount.stock", "resolved", "ok")
        /\ toasts' = NoToast
        /\ UNCHANGED <<stock, uncaught>>
     \/ /\ checkStockAvailability(stock[c.productId], c.requiredQuantity)
        /\ uncaught' = TRUE
        /\ calls' = Settle(c)
        /\ ev' = Resume("updateProductAmount.stock", "resolved", "throws")
        /\ toasts' \in {NoToast, Raise(UpdateMsg)}
        /\ UNCHANGED <<cart, storage, stock>>

\* lines 145-170: the continuation of the await of the stock query
updateProductAmountStock(c) ==
  /\ ~uncaught
  /\ c.op = "updateProductAmount" /\ c.pc = "stock"
  /\ BagIn(c, calls)
  /\ \/ \* api.get rejects: caught at line 168
        /\ toasts' = Raise(UpdateMsg)
        /\ calls' = Settle(c)
        /\ ev' = Resume("updateProductAmount.stock", "rejected", "none")
        /\ UNCHANGED <<cart, storage, stock, uncaught>>
     \/ /\ ~checkStockAvailability(stock[c.productId], c.requiredQuantity)
        /\ toasts' = Raise(StockMsg)
        /\ calls' = Settle(c)
        /\ ev' = Resume("updateProductAmount.stock", "resolved", "none")
        /\ UNCHANGED <<cart, storage, stock, uncaught>>
     \/ \* lines 151-167: the updater runs on the current state and saves it
        /\ checkStockAvailability(stock[c.productId], c.requiredQuantity)
        /\ storage' = saveToLocalStorage(ReplacedCart(cart, c.productId, c.amount))
        /\ cart' = ReplacedCart(cart, c.productId, c.amount)
        /\ calls' = Settle(c)
        /\ ev' = Resume("updateProductAmount.stock", "resolved", "ok")
        /\ toasts' = NoToast
        /\ UNCHANGED <<stock, uncaught>>
     \/ \* setItem throws inside the updater, which React runs while it
        \* renders: the state is not replaced, the error reaches the root,
        \* which has no error boundary, and the provider is unmounted. A
        \* root that renders inside the call of setCart throws the error
        \* again there, into the catch of line 168; one that renders later
        \* does not
        /\ checkStockAvailability(stock[c.productId], c.requiredQuantity)
        /\ uncaught' = TRUE
        /\ calls' = Settle(c)
        /\ ev' = Resume("updateProductAmount.stock", "resolved", "throws")
        /\ toasts' \in {NoToast, Raise(UpdateMsg)}
        /\ UNCHANGED <<cart, storage, stock>>

Next ==
  \/ \E productId \in ProductIds : addProduct(productId)
  \/ \E c \in BagToSet(calls) : addProductStock(c)
  \/ \E c \in BagToSet(calls) : addProductFetch(c)
  \/ \E productId \in ProductIds : removeProduct(productId)
  \/ \E productId \in ProductIds, amount \in Amounts : updateProductAmount(productId, amount)
  \/ \E c \in BagToSet(calls) : updateProductAmountStock(c)

Spec == Init /\ [][Next]_vars

\* the shelf of the race on one product: product 1 with one unit more than
\* MaxStock, so that a product of the cart has two units left to add
AmpleStock == [p \in ProductIds |-> IF p = 1 THEN MaxStock + 1 ELSE 1]

InitAmpleStock ==
  /\ stock = AmpleStock
  /\ storage \in {Absent, Stored(Unparseable)}
                  \cup {saveToLocalStorage(c) : c \in StoredCarts(stock)}
  /\ IF InitializerThrows(storage)
     THEN cart = <<>> /\ uncaught = TRUE
     ELSE cart = InitialCart(storage) /\ uncaught = FALSE
  /\ toasts = NoToast
  /\ calls = EmptyBag
  /\ ev = Call("init", 0, 0, "none")

SpecAmpleStock == InitAmpleStock /\ [][Next]_vars

\* ------------------------------------------------------------------ claims
\* the continuation of the invocation c, suspended at pc in handler op, runs
\* in this step
Resumes(c, op, pc) ==
  /\ c.op = op
  /\ c.pc = pc
  /\ CopiesIn(c, calls') < CopiesIn(c, calls)

InFlight == BagCardinality(calls)

\* the quantity addProduct has to find in stock, from the cart it read
RequiredToAdd(c) ==
  IF InCart(c.cart, c.productId) THEN AmountOf(c.cart, c.productId) + 1 ELSE 1

\* the stored string reads back as the cart c
Persisted(st, c) == st.present /\ Parse(st.value) = c

\* C1: an addProduct whose stock check fails (stock < 1 for a product absent
\* from the cart it read, stock < k+1 for one present with amount k) leaves
\* the cart unchanged and raises exactly one notification: none at the call,
\* one at the rejection
C1_StockRejection ==
  [][/\ ev'.op = "addProduct" => toasts' = NoToast
     /\ \A c \in BagToSet(calls) :
          ( /\ ev'.reply = "resolved"
            /\ Resumes(c, "addProduct", "stock")
            /\ stock[c.productId] < RequiredToAdd(c) )
          => /\ cart' = cart
             /\ Len(toasts') = 1
             /\ calls' = Settle(c)]_vars

\* a stock query of addProduct resolved and the request was rejected
C1_Witness ==
  /\ ev.op = "addProduct.stock"
  /\ ev.reply = "resolved"
  /\ toasts = Raise(StockMsg)

\* C2: with the stock amounts fixed, every product in the cart has
\* amount <= the stock amount of that product, in every reachable state
C2_WithinStock ==
  \A i \in 1..Len(cart) : cart[i].amount <= stock[cart[i].id]

\* a write has just brought a product to the last unit in stock while
\* another invocation is suspended
C2_Witness ==
  /\ ev.save = "ok"
  /\ InFlight > 0
  /\ \E i \in 1..Len(cart) : cart[i].amount = stock[cart[i].id] /\ cart[i].amount >= 2

\* C3: no two products in the cart share the same id, in every reachable
\* state, also while two addProduct invocations for the same absent product
\* are in flight
C3_UniqueIds == UniqueIds(cart)

\* an addProduct that read a cart without the product is about to append it
\* while the current cart already holds it
C3_Witness ==
  \E c \in BagToSet(calls) :
    /\ c.op = "addProduct" /\ c.pc = "fetch"
    /\ ~InCart(c.cart, c.productId)
    /\ InCart(cart, c.productId)

\* C4: every product in the cart has amount >= 1, in every reachable state,
\* whatever amount updateProductAmount is called with, 0 included
C4_PositiveAmounts ==
  \A i \in 1..Len(cart) : cart[i].amount >= 1

\* updateProductAmount was called with an amount below 1 for a product of
\* the cart
C4_Witness ==
  /\ ev.op = "updateProductAmount"
  /\ ev.amount < 1
  /\ InCart(cart, ev.productId)

\* C5: the persisted snapshot equals the in-memory cart in every state
\* between two steps of a store that has a cart, and after a successful
\* mutation the snapshot exists
C5_PersistedIsPublished ==
  /\ ~InitializerThrows(storage) => InitialCart(storage) = cart
  /\ ev.save = "ok" => Persisted(storage, cart)

\* a mutation has just been written while an addProduct that read another
\* cart is still suspended
C5_Witness ==
  /\ ev.save = "ok"
  /\ cart # <<>>
  /\ \E c \in BagToSet(calls) : c.op = "addProduct" /\ c.cart # cart

Without(c, i) == SubSeq(c, 1, i - 1) \o SubSeq(c, i + 1, Len(c))

C10_InvalidAmountNoOp ==
  [][(ev'.op = "updateProductAmount" /\ ev'.amount < 1) =>
       /\ cart' = cart
       /\ calls' = calls
       /\ storage' = storage
       /\ toasts' = NoToast
       /\ uncaught' = uncaught]_vars

\* updateProductAmount was called with an amount below 1 for a product that
\* is not in the cart
C10_Witness ==
  /\ ev.op = "updateProductAmount"
  /\ ev.amount < 1
  /\ ~InCart(cart, ev.productId)

\* C11: updateProductAmount with amount >= 1 and a productId absent from the
\* cart is rejected: the cart and the persisted snapshot are unchanged, no
\* stock query is issued (no invocation is left suspended), and exactly one
\* notification is raised, the quantity-change failure message
C11_NotInCartRejected ==
  [][( /\ ev'.op = "updateProductAmount"
       /\ ev'.amount >= 1
       /\ ~InCart(cart, ev'.productId) )
     => /\ cart' = cart
        /\ storage' = storage
        /\ calls' = calls
        /\ toasts' = Raise(UpdateMsg)
        /\ uncaught' = uncaught]_vars

\* updateProductAmount was called with an amount of 1 or more for a product
\* that is not in the cart, while the cart holds another product
C11_Witness ==
  /\ ev.op = "updateProductAmount"
  /\ ev.amount >= 1
  /\ ~InCart(cart, ev.productId)
  /\ cart # <<>>

\* C12: a collaborator failure during addProduct (the stock query rejects,
\* the fetch of the product rejects, or the write to the store throws) leaves
\* the cart unchanged and raises exactly one notification, the generic
\* add-failed message, which differs from the insufficient-stock message;
\* the steps of the invocation before the failure raise none
C12_AddFailure ==
  [][/\ ( /\ ev'.op \in {"addProduct.stock", "addProduct.fetch"}
          /\ ev'.reply = "rejected" \/ ev'.save = "throws" )
        => /\ cart' = cart
           /\ storage' = storage
           /\ toasts' = Raise(AddMsg)
           /\ AddMsg # StockMsg
           /\ uncaught' = uncaught
           /\ BagCardinality(calls') = BagCardinality(calls) - 1
     /\ ( /\ ev'.op \in {"addProduct", "addProduct.stock"}
          /\ BagCardinality(calls') >= BagCardinality(calls) )
        => toasts' = NoToast]_vars

\* the write to the store has just thrown in an addProduct that had fetched
\* a new product, and the add-failed message was raised
C12_Witness ==
  /\ ev.op = "addProduct.fetch"
  /\ ev.save = "throws"
  /\ toasts = Raise(AddMsg)

\* C13, as claimed: at initialization the cart is the sequence read from the
\* store, and the empty sequence when the stored value is absent or cannot
\* be parsed; the initialization never fails
C13_InitializesAsClaimed ==
  ev.op = "init" =>
    /\ ~uncaught
    /\ cart = IF storage.present /\ IsJSON(storage.value)
              THEN Parse(storage.value)
              ELSE <<>>

\* C14, as claimed: no failure propagates past the store: whatever the
\* catalog and the writes to the store do, the write updateProductAmount
\* makes inside its updater included, every step of addProduct, removeProduct
\* and updateProductAmount ends handled and no error is left uncaught
C14_NoFailureEscapes ==
  ev.op # "init" => ~uncaught

\* C15: a lost update is reachable: of two addProduct invocations for the
\* same product that read the same cart (amount k, stock >= k+2), once the
\* first has committed k+1 the second can still pass its stock check against
\* k and commit, and the cart then holds k+1, not k+2
C15_LostUpdateReachable ==
  \A c \in BagToSet(calls) :
    ( /\ ev.op = "addProduct.stock"
      /\ ev.save = "ok"
      /\ c.op = "addProduct" /\ c.pc = "stock"
      /\ InCart(c.cart, c.productId)
      /\ cart = IncrementedCart(c.cart, c.productId)
      /\ stock[c.productId] >= AmountOf(c.cart, c.productId) + 2 )
    => ENABLED ( /\ addProductStock(c)
                 /\ ev'.save = "ok"
                 /\ AmountOf(cart', c.productId) = AmountOf(c.cart, c.productId) + 1 )

\* the first of two addProduct invocations that read the same cart of one
\* product has just committed, the second is suspended on its stock query
\* and the stock has room for both
C15_Witness ==
  \E c \in BagToSet(calls) :
    /\ ev.op = "addProduct.stock"
    /\ ev.save = "ok"
    /\ c.op = "addProduct" /\ c.pc = "stock"
    /\ Len(c.cart) = 1
    /\ InCart(c.cart, c.productId)
    /\ cart = IncrementedCart(c.cart, c.productId)
    /\ stock[c.productId] >= AmountOf(c.cart, c.productId) + 2

\* C16, as claimed: every committing addProduct is an atomic transition from
\* the current cart: whatever committed while it was suspended, the cart
\* right after its commit is the cart right before it with exactly one
\* product's amount increased by 1, or with one new product of amount 1
\* appended; a product removed in between is not brought back
C16_AddIsAtomicAsClaimed ==
  [][\A c \in BagToSet(calls) :
       ( /\ ev'.save = "ok"
         /\ c.op = "addProduct"
         /\ CopiesIn(c, calls') < CopiesIn(c, calls) )
       => \/ /\ Len(cart') = Len(cart)
             /\ \E i \in 1..Len(cart) :
                  cart' = [cart EXCEPT ![i].amount = cart[i].amount + 1]
          \/ /\ Len(cart') = Len(cart) + 1
             /\ SubSeq(cart', 1, Len(cart)) = cart
             /\ cart'[Len(cart')] = Product(c.productId, 1)
             /\ ~InCart(cart, c.productId)]_vars

\* C17, as claimed: whenever an updateProductAmount passes its validation
\* (amount >= 1, product found at the call, stock sufficient) and commits,
\* whatever committed while it awaited its stock query, a removeProduct of
\* the same product included, the cart right after the commit holds exactly
\* one product with that id and its amount is the requested one
C17_UpdateCommitsAsClaimed ==
  [][\A c \in BagToSet(calls) :
       ( /\ ev'.save = "ok"
         /\ Resumes(c, "updateProductAmount", "stock") )
       => \E i \in 1..Len(cart') :
            /\ cart'[i].id = c.productId
            /\ cart'[i].amount = c.amount
            /\ \A j \in 1..Len(cart') : cart'[j].id = c.productId => j = i]_vars

\* C18: a step that ends an invocation in a rejection (insufficient stock,
\* product not in the cart, failure of a collaborator) or in the silent
\* guard on amount < 1 writes nothing to the store and publishes nothing:
\* the cart and the persisted snapshot are the same after it as before it;
\* the store is written and the cart replaced only by a commit, a commit
\* raises no notification, and neither does a step that leaves the
\* invocation suspended
C18_RejectionsAreSelfLoops ==
  [][/\ ev'.save # "ok" => cart' = cart /\ storage' = storage
     /\ toasts' # NoToast => ev'.save # "ok"
     /\ ev'.save = "ok" => Persisted(storage', cart')
     /\ BagCardinality(calls') >= BagCardinality(calls)
          => \/ toasts' = NoToast
             \/ /\ ev'.op \in {"removeProduct", "updateProductAmount"}
                /\ calls' = calls]_vars

\* a stock query of updateProductAmount has just ended in the rejection for
\* insufficient stock while another invocation is suspended
C18_Witness ==
  /\ ev.op = "updateProductAmount.stock"
  /\ toasts = Raise(StockMsg)
  /\ cart # <<>>
  /\ InFlight > 0

\* C19: a committing updateProductAmount computes the new cart from the cart
\* current at the write: the cart right after the commit is the cart right
\* before it with at most the amount of the target product changed, so what
\* committed while it awaited its stock query, on another product or a
\* removal, is kept
C19_UpdateKeepsCurrent ==
  [][\A c \in BagToSet(calls) :
       ( /\ ev'.save = "ok"
         /\ Resumes(c, "updateProductAmount", "stock") )
       => /\ Len(cart') = Len(cart)
          /\ \A i \in 1..Len(cart) :
               \/ cart'[i] = cart[i]
               \/ /\ cart[i].id = c.productId
                  /\ cart'[i] = [cart[i] EXCEPT !.amount = c.amount]]_vars

\* an updateProductAmount has just committed on an empty cart: the product
\* it found at the call was removed while it awaited, and stays removed
C19_Witness ==
  /\ ev.op = "updateProductAmount.stock"
  /\ ev.save = "ok"
  /\ cart = <<>>

\* C20: a stock query that fails during updateProductAmount (amount >= 1,
\* product found at the call) leaves the cart and the persisted snapshot
\* unchanged and raises exactly one notification, the quantity-change
\* failure message that the rejection of a product not in the cart raises;
\* the call that issued the query raised none
C20_UpdateQueryFailure ==
  [][/\ ( /\ ev'.op = "updateProductAmount.stock"
          /\ ev'.reply = "rejected" )
        => /\ cart' = cart
           /\ storage' = storage
           /\ toasts' = Raise(UpdateMsg)
           /\ uncaught' = uncaught
           /\ BagCardinality(calls') = BagCardinality(calls) - 1
     /\ ( /\ ev'.op = "updateProductAmount"
          /\ calls' # calls )
        => /\ toasts' = NoToast
           /\ ev'.amount >= 1
           /\ InCart(cart, ev'.productId)]_vars

\* the stock query of an updateProductAmount has just been rejected and the
\* quantity-change failure message was raised, the product still in a cart
\* of two
C20_Witness ==
  /\ ev.op = "updateProductAmount.stock"
  /\ ev.reply = "rejected"
  /\ toasts = Raise(UpdateMsg)
  /\ Len(cart) = 2
====
